---- MODULE Spec2Model ----
(***************************************************************************)
(* Model of the CIF structure writer print_structure (src/output.cpp) and  *)
(* the process-wide globals it reads (src/global.h, src/globals.cpp).      *)
(*                                                                         *)
(* A double is modelled by an integer number of hundredths (x = 10 stands  *)
(* for 0.10); a value printed through the stream (setprecision(3), fixed)  *)
(* is an integer number of thousandths.  A line of the file is the tuple   *)
(* of its blank-separated tokens; a blank line is the empty tuple.  The    *)
(* blank padding of the columns is not modelled.                           *)
(***************************************************************************)
EXTENDS Integers, Sequences, FiniteSets, TLC

VARIABLES
    list, Als, struc, name_zeo, name_alg, out_name,   \* arguments of print_structure
    Natoms, Tatoms, a, b, c, alpha, beta, gama, setting, \* globals (global.h)
    today, environ,        \* the world: local date, USER / USERNAME
    pending, calls,        \* invocations still to make / returned so far
    pc,                    \* position of the process
    fname, fs, isOpen,     \* path built, files on disk, state of fout
    cerr, exitStatus,      \* error stream, exit status of the process
    i, Tat, alcount,       \* locals of the atom loop
    trace,                 \* operations on fout during the current invocation
    prev                   \* file produced by the previous completed invocation

vars == <<list, Als, struc, name_zeo, name_alg, out_name,
          Natoms, Tatoms, a, b, c, alpha, beta, gama, setting,
          today, environ, pending, calls, pc, fname, fs, isOpen,
          cerr, exitStatus, i, Tat, alcount, trace, prev>>

args    == <<list, Als, struc, name_zeo, name_alg, out_name>>
globals == <<Natoms, Tatoms, a, b, c, alpha, beta, gama, setting>>
world   == <<today, environ>>
locals  == <<i, Tat, alcount>>

----------------------------------------------------------------------------
(* Bounds of the model.                                                    *)

MaxAtoms == 3      \* longest atom array
MaxAls   == 2      \* longest Als vector
MaxCalls == 2      \* invocations made by the driver in one process

----------------------------------------------------------------------------
(* Input domains.                                                          *)

\* typedef struct { char id[5], at[5]; double x, y, z, q; } atom
atom(id, at, x, y, z, q) == [id |-> id, at |-> at, x |-> x, y |-> y, z |-> z, q |-> q]

AtomPool ==
    { atom("Si", "T1",  10, 20, 30, 120),
      atom("Si", "T2",  70, 80, 90, 120),
      atom("O",  "O1",  40, 50, 60, -80),
      atom("Al", "Al1", 25, 25, 25, 100) }

AtomLists(n) == UNION { [1..k -> AtomPool] : k \in 0..n }

\* values an entry of Als may take: a negative one, Si indices, and 3, which is
\* past the last Si index of every array of up to 3 atoms
AlsValues == -1..3

AlsVectors(n) == UNION { [1..k -> AlsValues] : k \in 0..n }

\* cell lengths in hundredths; no product a*b*c of them ends in a tie at the
\* third decimal
Lengths == {152, 251, 305}
Angles  == {<<90, 90, 90>>, <<90, 120, 90>>, <<60, 70, 80>>}
Dates   == {"2024-01-31", "2024-02-01"}

NullPtr == "nullptr"     \* getenv() of a variable that is not set

Environs ==
    { [USER |-> "alice", USERNAME |-> NullPtr],
      [USER |-> NullPtr, USERNAME |-> "bob"],
      [USER |-> NullPtr, USERNAME |-> NullPtr] }

\* directories that exist and are writable; ofstream::open creates no directory
Dirs == {"out"}

----------------------------------------------------------------------------
(* Pure helpers.                                                           *)

Range(s) == { s[k] : k \in 1..Len(s) }

\* value num/den printed with fixed precision 3, in thousandths: the nearest
\* one (the inputs of the model produce no tie)
Fixed3(num, den) ==
    IF num >= 0 THEN (2 * num + den) \div (2 * den)
                ELSE -((2 * (-num) + den) \div (2 * den))

\* a double held in hundredths, as the stream prints it
Put(v) == Fixed3(10 * v, 1)

\* fname = out_name + "/" + name_zeo + "_" + name_alg + "_" + to_string(struc) + ".cif"
FName(dir, zeo, alg, n) == dir \o "/" \o zeo \o "_" \o alg \o "_" \o ToString(n) \o ".cif"

\* username: USER, else USERNAME, else "unknown_user"
UserName(env) ==
    IF env.USER # NullPtr THEN env.USER
    ELSE IF env.USERNAME # NullPtr THEN env.USERNAME
    ELSE "unknown_user"

CellVolume_Triclinic ==
    IF alpha = 9000 /\ beta = 9000 /\ gama = 9000 THEN a * b * c
    ELSE (a * b * c * 8) \div 10

\* the value streamed on the _cell_volume line
CellVolume == a * b * c

\* lines 46..73: the header block
Header(date, user) ==
    << <<"data_" \o name_zeo>>, <<>>,
       <<"_audit_creation_method", "RASPA-1.0">>,
       <<"_audit_creation_date", date>>,
       <<"_audit_author_name", "'" \o user \o "'">>, <<>>,
       <<"_cell_length_a", Put(a)>>,
       <<"_cell_length_b", Put(b)>>,
       <<"_cell_length_c", Put(c)>>,
       <<"_cell_angle_alpha", Put(alpha)>>,
       <<"_cell_angle_beta", Put(beta)>>,
       <<"_cell_angle_gamma", Put(gama)>>,
       <<"_cell_volume", Fixed3(CellVolume, 1000)>>, <<>>,
       <<"_symmetry_cell_setting", setting>>,
       <<"_symmetry_space_group_name_Hall", "'P", "1'">>,
       <<"_symmetry_space_group_name_H-M", "'P", "1'">>,
       <<"_symmetry_Int_Tables_number", "1">>,
       <<"_symmetry_equiv_pos_as_xyz", "'x,y,z'">>, <<>>,
       <<"loop_">>,
       <<"_atom_site_label">>,
       <<"_atom_site_type_symbol">>,
       <<"_atom_site_fract_x">>,
       <<"_atom_site_fract_y">>,
       <<"_atom_site_fract_z">>,
       <<"_atom_site_charge">> >>

AlRow_WrongColumn(at, n) ==
    <<"Al" \o ToString(n), "Al", Put(at.x), Put(at.x), Put(at.z), Put(at.q)>>

\* line 85: the aluminum row of atom at, numbered n
AlRow(at, n) == <<"Al" \o ToString(n), "Al", Put(at.x), Put(at.y), Put(at.z), Put(at.q)>>

OwnRow_Swapped(at) == <<at.id, at.at, Put(at.x), Put(at.y), Put(at.z), Put(at.q)>>

\* lines 92 and 95: the row of atom at under its own at / id
OwnRow(at) == <<at.at, at.id, Put(at.x), Put(at.y), Put(at.z), Put(at.q)>>

Matches_OneBased(t, entry) == t + 1 = entry

Matches_AtLeast(t, entry) == t >= entry

\* the test of line 83
Matches(t, entry) == t = entry

RECURSIVE ScanAls_NoBreak(_, _, _, _)
ScanAls_NoBreak(at, t, j, st) ==
    IF j <= Len(Als)
    THEN IF t = Als[j]
         THEN ScanAls_NoBreak(at, t, j + 1,
                      [ctl |-> 0, alcount |-> st.alcount + 1,
                       out |-> Append(st.out, AlRow(at, st.alcount))])
         ELSE ScanAls_NoBreak(at, t, j + 1, st)
    ELSE st

RECURSIVE ScanAls_NoIncrement(_, _, _, _)
ScanAls_NoIncrement(at, t, j, st) ==
    IF j <= Len(Als) /\ st.ctl = 1
    THEN IF t = Als[j]
         THEN ScanAls_NoIncrement(at, t, j + 1,
                      [ctl |-> 0, alcount |-> st.alcount,
                       out |-> Append(st.out, AlRow(at, st.alcount))])
         ELSE ScanAls_NoIncrement(at, t, j + 1, st)
    ELSE st

\* lines 81..89: the scan of Als for the Si atom at with index t, from entry j on
RECURSIVE ScanAls(_, _, _, _)
ScanAls(at, t, j, st) ==
    IF j <= Len(Als) /\ st.ctl = 1
    THEN IF Matches(t, Als[j])
         THEN ScanAls(at, t, j + 1,
                      [ctl |-> 0, alcount |-> st.alcount + 1,
                       out |-> Append(st.out, AlRow(at, st.alcount))])
         ELSE ScanAls(at, t, j + 1, st)
    ELSE st

----------------------------------------------------------------------------
(* Initial states: the arguments and globals a caller may pass.  The three *)
(* families vary the atom array and Als, the globals, and the number of    *)
(* invocations, one at a time.                                             *)

SiCount(l) == Cardinality({ k \in 1..Len(l) : l[k].id = "Si" })

InitProcess ==
    /\ Natoms = Len(list)
    /\ calls = 0
    /\ pc = "idle"
    /\ fname = ""
    /\ fs = [p \in {} |-> <<>>]
    /\ isOpen = FALSE
    /\ cerr = <<>>
    /\ exitStatus = 0
    /\ i = 0 /\ Tat = 0 /\ alcount = 0
    /\ trace = <<>>
    /\ prev = <<>>

InitRows ==
    /\ list \in AtomLists(MaxAtoms)
    /\ Als \in AlsVectors(MaxAls)
    /\ Tatoms = SiCount(list)
    /\ struc = 0 /\ name_zeo = "MFI" /\ name_alg = "merw" /\ out_name = "out"
    /\ a = 252 /\ b = 251 /\ c = 305
    /\ alpha = 9000 /\ beta = 9000 /\ gama = 9000
    /\ setting = "orthorhombic"
    /\ today = "2024-01-31"
    /\ environ = [USER |-> "alice", USERNAME |-> NullPtr]
    /\ pending = 1

InitGlobals ==
    /\ list \in AtomLists(1)
    /\ Als \in AlsVectors(1)
    /\ Tatoms \in 0..2       \* never set (globals.cpp:4), or set by the caller
    /\ struc \in {0, 12} /\ name_zeo = "LTA" /\ name_alg = "merw"
    /\ out_name \in {"out", "nodir"}
    /\ a \in Lengths /\ b = 251 /\ c = 305
    /\ \E ang \in Angles :
          alpha = 100 * ang[1] /\ beta = 100 * ang[2] /\ gama = 100 * ang[3]
    /\ setting \in {"triclinic"}
    /\ today = "2024-01-31"
    /\ environ \in Environs
    /\ pending = 1

InitTwice ==
    /\ list \in AtomLists(2)
    /\ Als \in AlsVectors(1)
    /\ Tatoms = SiCount(list)
    /\ struc = 1 /\ name_zeo = "MFI" /\ name_alg = "merw"
    /\ out_name \in {"out", "nodir"}
    /\ a = 252 /\ b = 251 /\ c = 305
    /\ alpha = 9000 /\ beta = 9000 /\ gama = 9000
    /\ setting = "orthorhombic"
    /\ today \in Dates
    /\ environ \in Environs
    /\ pending = MaxCalls

Init == (InitRows \/ InitGlobals \/ InitTwice) /\ InitProcess

----------------------------------------------------------------------------
(* Actions.                                                                *)

\* the caller invokes print_structure; line 19 builds the path
Invoke ==
    /\ pc = "idle" /\ pending > 0
    /\ pending' = pending - 1
    /\ fname' = FName(out_name, name_zeo, name_alg, struc)
    /\ trace' = <<>>
    /\ pc' = "open"
    /\ UNCHANGED <<args, globals, world, calls, fs, isOpen, cerr, exitStatus,
                   locals, prev>>

OpenOk_NoTruncate ==
    /\ pc = "open" /\ out_name \in Dirs
    /\ fs' = [p \in DOMAIN fs \cup {fname} |->
                 IF p \in DOMAIN fs THEN fs[p] ELSE <<>>]
    /\ isOpen' = TRUE
    /\ trace' = Append(trace, "open")
    /\ pc' = "header"
    /\ UNCHANGED <<args, globals, world, pending, calls, fname, cerr,
                   exitStatus, locals, prev>>

\* line 21, open succeeded: the file is created or truncated
OpenOk ==
    /\ pc = "open" /\ out_name \in Dirs
    /\ fs' = [p \in DOMAIN fs \cup {fname} |-> IF p = fname THEN <<>> ELSE fs[p]]
    /\ isOpen' = TRUE
    /\ trace' = Append(trace, "open")
    /\ pc' = "header"
    /\ UNCHANGED <<args, globals, world, pending, calls, fname, cerr,
                   exitStatus, locals, prev>>

\* lines 21..23, open failed: the diagnostic
OpenFail ==
    /\ pc = "open" /\ out_name \notin Dirs
    /\ cerr' = Append(cerr, <<"unable to open file ", fname, " for writing">>)
    /\ trace' = Append(trace, "fail")
    /\ pc' = "exit"
    /\ UNCHANGED <<args, globals, world, pending, calls, fname, fs, isOpen,
                   exitStatus, locals, prev>>

Exit_Status0 ==
    /\ pc = "exit"
    /\ exitStatus' = 0
    /\ pc' = "exited"
    /\ UNCHANGED <<args, globals, world, pending, calls, fname, fs, isOpen,
                   cerr, locals, trace, prev>>

\* line 24: exit(1)
Exit ==
    /\ pc = "exit"
    /\ exitStatus' = 1
    /\ pc' = "exited"
    /\ UNCHANGED <<args, globals, world, pending, calls, fname, fs, isOpen,
                   cerr, locals, trace, prev>>

\* lines 27..77: date, user name, header block, alcount = 1, Tat = -1
WriteHeader ==
    /\ pc = "header"
    /\ fs' = [fs EXCEPT ![fname] = @ \o Header(today, UserName(environ))]
    /\ alcount' = 1
    /\ Tat' = -1
    /\ i' = 0
    /\ trace' = Append(trace, "header")
    /\ pc' = "atoms"
    /\ UNCHANGED <<args, globals, world, pending, calls, fname, isOpen, cerr,
                   exitStatus, prev>>

\* lines 78..97: one iteration of the atom loop (list[i], zero-based i)
WriteAtom ==
    /\ pc = "atoms" /\ i < Natoms
    /\ LET at == list[i + 1] IN
         IF at.id = "Si"
         THEN LET st == ScanAls(at, Tat + 1, 1,
                                [ctl |-> 1, alcount |-> alcount, out |-> <<>>])
                  out == IF st.ctl = 1 THEN Append(st.out, OwnRow(at)) ELSE st.out
              IN /\ Tat' = Tat + 1
                 /\ alcount' = st.alcount
                 /\ fs' = [fs EXCEPT ![fname] = @ \o out]
                 /\ trace' = trace \o [k \in 1..Len(out) |-> "row"]
         ELSE /\ fs' = [fs EXCEPT ![fname] = Append(@, OwnRow(at))]
              /\ trace' = Append(trace, "row")
              /\ UNCHANGED <<Tat, alcount>>
    /\ i' = i + 1
    /\ UNCHANGED <<args, globals, world, pending, calls, pc, fname, isOpen,
                   cerr, exitStatus, prev>>

CloseFile_Early ==
    /\ pc = "atoms" /\ i >= Natoms - 1
    /\ isOpen' = FALSE
    /\ trace' = Append(trace, "close")
    /\ pc' = "return"
    /\ UNCHANGED <<args, globals, world, pending, calls, fname, fs, cerr,
                   exitStatus, locals, prev>>

\* line 99: fout.close() once the loop is over
CloseFile ==
    /\ pc = "atoms" /\ i >= Natoms
    /\ isOpen' = FALSE
    /\ trace' = Append(trace, "close")
    /\ pc' = "return"
    /\ UNCHANGED <<args, globals, world, pending, calls, fname, fs, cerr,
                   exitStatus, locals, prev>>

\* line 100: return to the caller
Return ==
    /\ pc = "return"
    /\ calls' = calls + 1
    /\ prev' = << [fname |-> fname, file |-> fs[fname], environ |-> environ] >>
    /\ pc' = "idle"
    /\ UNCHANGED <<args, globals, world, pending, fname, fs, isOpen, cerr,
                   exitStatus, locals, trace>>

\* between two invocations the date and the environment may change
Elapse ==
    /\ pc = "idle" /\ calls > 0 /\ pending > 0
    /\ today' \in Dates
    /\ environ' \in Environs
    /\ <<today', environ'>> # <<today, environ>>
    /\ UNCHANGED <<args, globals, pending, calls, pc, fname, fs, isOpen, cerr,
                   exitStatus, locals, trace, prev>>

Next ==
    \/ Invoke
    \/ OpenOk
    \/ OpenFail
    \/ Exit
    \/ WriteHeader
    \/ WriteAtom
    \/ CloseFile
    \/ Return
    \/ Elapse

Spec == Init /\ [][Next]_vars

----------------------------------------------------------------------------
(* Vocabulary of the properties, defined on the inputs and on the file.    *)

\* the file of the current invocation
File == fs[fname]

\* the header block of lines 46..73 has 27 lines, 6 of them blank
HeaderLen == 27

\* the atom rows of the file: the lines after the header block
Rows == SubSeq(File, HeaderLen + 1, Len(File))

\* the atom loop has run to its end and the file is closed
Finished == pc = "return" \/ (pc = "idle" /\ calls > 0)

\* zero-based index of list[k] among the Si-typed atoms (k counts from 1)
SiIndex(k) == Cardinality({ m \in 1..(k - 1) : list[m].id = "Si" })

IsSi(k) == list[k].id = "Si"

\* the Si-typed atom at position k was written as an aluminum row
IsAlRow(k) == IsSi(k) /\ Rows[k][2] = "Al"

AlRowsBefore(k) == Cardinality({ m \in 1..(k - 1) : m <= Len(Rows) /\ IsAlRow(m) })

Coordinates(k) == <<Put(list[k].x), Put(list[k].y), Put(list[k].z), Put(list[k].q)>>

AlsDistinctInRange ==
    /\ \A p, r \in 1..Len(Als) : p # r => Als[p] # Als[r]
    /\ \A p \in 1..Len(Als) : 0 <= Als[p] /\ Als[p] < SiCount(list)

----------------------------------------------------------------------------
(* C1: when the entries of Als are distinct and lie in [0, number of Si    *)
(* atoms), the k-th Si atom is written as an aluminum row (label "Al"n,    *)
(* type "Al") exactly when k is in Als, n being 1 plus the number of       *)
(* aluminum rows before it; every other row carries the atom's at and id.  *)
C1_AlRowIffInAls ==
    (Finished /\ AlsDistinctInRange) =>
        /\ Len(Rows) = Natoms
        /\ \A k \in 1..Natoms :
              IF IsSi(k) /\ SiIndex(k) \in Range(Als)
              THEN /\ Rows[k][1] = "Al" \o ToString(1 + AlRowsBefore(k))
                   /\ Rows[k][2] = "Al"
              ELSE /\ Rows[k][1] = list[k].at
                   /\ Rows[k][2] = list[k].id

\* three Si atoms with Als = {0, 2}: Al1 for the 1st and Al2 for the 3rd
C1_Witness ==
    /\ Finished /\ Als = <<0, 2>> /\ Natoms = 3
    /\ \A k \in 1..3 : IsSi(k)
    /\ Rows[1][1] = "Al1" /\ Rows[2][2] = "Si" /\ Rows[3][1] = "Al2"

(* C2: with an empty Als the writer emits exactly Natoms rows, the i-th    *)
(* carrying at, id, x, y, z and q of list[i], in array order, and no       *)
(* aluminum row is emitted (alcount is still 1).                           *)
C2_EmptyAlsUnchanged ==
    (Finished /\ Als = <<>>) =>
        /\ Len(Rows) = Natoms
        /\ \A k \in 1..Natoms :
              Rows[k] = <<list[k].at, list[k].id>> \o Coordinates(k)
        /\ alcount = 1

C2_Witness ==
    /\ Finished /\ Als = <<>> /\ Natoms >= 2
    /\ IsSi(1) /\ ~IsSi(2)
    /\ Len(Rows) = Natoms

(* C7: the rows depend only on the set of values in Als: they are the rows *)
(* determined by the atom array and that set, whatever the order and the   *)
(* repetitions of the entries; a Si atom whose index occurs several times  *)
(* is one aluminum row and advances alcount once.                          *)
RowOfSet(S, k) ==
    IF IsSi(k) /\ SiIndex(k) \in S
    THEN <<"Al" \o ToString(1 + Cardinality({ m \in 1..(k - 1) :
                                  IsSi(m) /\ SiIndex(m) \in S })), "Al">>
         \o Coordinates(k)
    ELSE <<list[k].at, list[k].id>> \o Coordinates(k)

C7_RowsDependOnSet ==
    Finished =>
        /\ Rows = [k \in 1..Natoms |-> RowOfSet(Range(Als), k)]
        /\ alcount - 1 = Cardinality({ k \in 1..Natoms :
                                         IsSi(k) /\ SiIndex(k) \in Range(Als) })

\* an index repeated in Als, after another one, and its atom substituted once
C7_Witness ==
    /\ Finished /\ Als = <<1, 1>> /\ Natoms = 3
    /\ IsSi(1) /\ ~IsSi(2) /\ IsSi(3)
    /\ Rows[1][1] = "T1" /\ Rows[3][1] = "Al1" /\ alcount = 2

(* C8: on the success path there is exactly one row per atom, in array     *)
(* order, the i-th row carries x, y, z and q of list[i] (also when it is   *)
(* an aluminum row), and a non-Si atom keeps its own at and id whatever    *)
(* Als contains.                                                           *)
C8_OneRowPerAtom ==
    Finished =>
        /\ Len(Rows) = Natoms
        /\ \A k \in 1..Natoms :
              /\ SubSeq(Rows[k], 3, 6) = Coordinates(k)
              /\ ~IsSi(k) => (Rows[k][1] = list[k].at /\ Rows[k][2] = list[k].id)

\* Als longer than the Si atoms and out of range, with a substitution made
C8_Witness ==
    /\ Finished /\ Als = <<3, 0>> /\ Natoms = 2
    /\ IsSi(1) /\ ~IsSi(2)
    /\ Rows[1][1] = "Al1" /\ Len(Rows) = 2

(* C9: throughout the atom loop Tat is the number of Si atoms visited      *)
(* minus 1 and alcount is 1 plus the number of aluminum rows written; the  *)
(* aluminum labels are Al1, Al2, ..., Alm in this order, without gap or    *)
(* repeat, and m is at most the number of Si atoms.                        *)
C9_LoopCounters ==
    (pc \in {"atoms", "return"}) =>
        /\ Len(Rows) = i
        /\ Tat = SiCount(SubSeq(list, 1, i)) - 1
        /\ alcount = 1 + Cardinality({ k \in 1..i : IsAlRow(k) })
        /\ \A k \in 1..i :
              IsAlRow(k) => Rows[k][1] = "Al" \o ToString(1 + AlRowsBefore(k))
        /\ alcount - 1 <= SiCount(list)

\* in the middle of the loop, one aluminum row written, one atom to go
C9_Witness ==
    /\ pc = "atoms" /\ i = 2 /\ Natoms = 3
    /\ alcount = 2 /\ Tat = 1
    /\ Rows[2][1] = "Al1"

(* C3 as stated: an entry of Als that is >= Tatoms or < 0 makes no atom an *)
(* aluminum row, and the writer reports no error and writes one row per    *)
(* atom.                                                                   *)
C3_OutsideTatomsInert ==
    Finished =>
        /\ Len(Rows) = Natoms /\ exitStatus = 0 /\ cerr = <<>>
        /\ \A j \in 1..Len(Als) :
              (Als[j] >= Tatoms \/ Als[j] < 0) =>
                  ~ \E k \in 1..Natoms : IsAlRow(k) /\ SiIndex(k) = Als[j]

(* C3 amended: the entries of Als that are < 0 or >= the number of Si      *)
(* atoms of the array (whatever Tatoms holds) are inert: the aluminum rows *)
(* are exactly the Si atoms whose index is an entry inside that range and  *)
(* alcount counts them; no error is reported, the writer is never stuck    *)
(* and it writes one row per atom.                                         *)
C3_OutsideSiCountInert ==
    /\ Finished =>
          LET inside == { v \in Range(Als) : 0 <= v /\ v < SiCount(list) } IN
          /\ Len(Rows) = Natoms
          /\ \A k \in 1..Natoms : IsSi(k) => (Rows[k][2] = "Al" <=> SiIndex(k) \in inside)
          /\ alcount - 1 = Cardinality(inside)
    /\ (pc \in {"header", "atoms", "return"} \/ Finished) =>
          /\ exitStatus = 0 /\ cerr = <<>>
          /\ pc # "idle" => ENABLED (WriteHeader \/ WriteAtom \/ CloseFile \/ Return)

\* entries below 0 and past the Si atoms next to nothing substituted
C3_Witness ==
    /\ Finished /\ Als = <<-1, 3>> /\ Natoms = 3
    /\ \A k \in 1..3 : IsSi(k) /\ Rows[k][2] = "Si"
    /\ Tatoms = 3 /\ alcount = 1

(* C4: when the open of <out_name>/<name_zeo>_<name_alg>_<struc>.cif fails *)
(* the diagnostic holding that path goes to the error stream, then the     *)
(* process ends with exit status 1; nothing is written to any file and     *)
(* control does not return to the caller.                                  *)
C4_OpenFailureExits ==
    /\ [](pc \in {"exit", "exited"} =>
            /\ cerr # <<>>
            /\ cerr[Len(cerr)][2] = out_name \o "/" \o name_zeo \o "_" \o name_alg
                                      \o "_" \o ToString(struc) \o ".cif"
            /\ trace = <<"fail">>
            /\ ~isOpen)
    /\ [](pc = "exit" => exitStatus = 0)
    /\ [](pc = "exited" <=> exitStatus = 1)
    /\ [][(pc = "open" /\ out_name \notin Dirs) => (pc' = "exit" /\ fs' = fs)]_vars
    /\ [][pc = "exit" => (pc' = "exited" /\ fs' = fs /\ cerr' = cerr)]_vars
    /\ [][pc = "exited" => (pc' = "exited" /\ fs' = fs /\ calls' = calls)]_vars

C4_Witness ==
    /\ pc = "exited" /\ out_name = "nodir" /\ struc = 12
    /\ exitStatus = 1 /\ calls = 0
    /\ cerr = << <<"unable to open file ", "nodir/LTA_merw_12.cif", " for writing">> >>
    /\ DOMAIN fs = {}

\* the lines of a file other than the _audit_creation_date line
NotDateLine(l) == Len(l) = 0 \/ l[1] # "_audit_creation_date"

DropDate(f) == SelectSeq(f, NotDateLine)

(* C5 as stated: a second invocation with the same arguments and globals   *)
(* writes the same path and the same contents as the first, the            *)
(* _audit_creation_date line aside.                                        *)
C5_SecondRunIdentical ==
    (pc = "return" /\ prev # <<>>) =>
        /\ fname = prev[1].fname
        /\ DropDate(File) = DropDate(prev[1].file)

(* C5 amended: a second invocation with the same arguments and globals and *)
(* the same user name resolved from USER / USERNAME writes the same path   *)
(* and the same contents as the first, the _audit_creation_date line       *)
(* aside.                                                                  *)
C5_SecondRunIdenticalSameUser ==
    (pc = "return" /\ prev # <<>>
        /\ UserName(prev[1].environ) = UserName(environ)) =>
        /\ fname = prev[1].fname
        /\ DropDate(File) = DropDate(prev[1].file)

\* the second run, on another day, has replaced the file of the first
C5_Witness ==
    /\ pc = "return" /\ prev # <<>> /\ calls = 1
    /\ UserName(prev[1].environ) = UserName(environ)
    /\ prev[1].file[4][2] # today
    /\ Natoms = 2 /\ Len(File) = Len(prev[1].file)

(* C6: the value on the _cell_volume line is the product a*b*c of the cell *)
(* lengths, whatever the angles alpha, beta and gama are.                  *)
C6_VolumeIsProduct ==
    (fname \in DOMAIN fs /\ Len(File) >= HeaderLen) =>
        /\ \E n \in 1..HeaderLen : Len(File[n]) = 2 /\ File[n][1] = "_cell_volume"
        /\ \A n \in 1..HeaderLen :
              (Len(File[n]) = 2 /\ File[n][1] = "_cell_volume") =>
                  File[n][2] = Fixed3(a * b * c, 1000)

\* a cell that is not orthogonal: 1.52 x 2.51 x 3.05 at 60, 70, 80 degrees
C6_Witness ==
    /\ pc = "return"
    /\ a = 152 /\ b = 251 /\ c = 305
    /\ alpha = 6000 /\ beta = 7000 /\ gama = 8000
    /\ File[13] = <<"_cell_volume", 11636>>

(* C10: the handle goes open, header block, atom rows, close, return: no   *)
(* write before a successful open, the whole header before the first atom  *)
(* row, one close after the last row and before the return, and after a    *)
(* failed open neither a write nor a close.                                *)
C10_HandleOrder ==
    /\ \A n \in 1..Len(trace) :
          /\ trace[n] \in {"open", "fail"} <=> n = 1
          /\ trace[n] = "header" <=> (n = 2 /\ trace[1] = "open")
          /\ trace[n] = "row" => (3 <= n /\ n <= Natoms + 2)
          /\ trace[n] = "close" <=> n = Natoms + 3
    /\ isOpen <=> (trace # <<>> /\ trace[1] = "open" /\ trace[Len(trace)] # "close")
    /\ (Len(trace) >= 2) =>
          /\ Len(File) = HeaderLen + Len(trace) - 2 - (IF isOpen THEN 0 ELSE 1)
          /\ File[HeaderLen] = <<"_atom_site_charge">>
    /\ (trace # <<>> /\ trace[1] = "open" /\ Len(trace) < 2) => File = <<>>
    /\ (pc = "return" \/ (pc = "idle" /\ calls > 0)) => Len(trace) = Natoms + 3
    /\ pc \in {"exit", "exited"} => trace = <<"fail">>

\* a completed invocation: open, header, two rows, close
C10_Witness ==
    /\ pc = "idle" /\ calls = 1 /\ Natoms = 2
    /\ trace = <<"open", "header", "row", "row", "close">>
    /\ ~isOpen

====
